---- MODULE Spec2Model ----
(***************************************************************************)
(* Model of skyscrapers.py: the checks of a skyscrapers game board.        *)
(*                                                                         *)
(* A board is a sequence of rows and a row a sequence of one-character     *)
(* strings.  A call of a function of the module ends with an outcome: the  *)
(* returned boolean, written "True" or "False", or the exception the call  *)
(* raises, written "ValueError" (int() of a character that is no digit) or *)
(* "IndexError" (an index or a pop() outside a list or a string).          *)
(***************************************************************************)
EXTENDS Integers, Sequences, FiniteSets, TLC

\* Sizes of the inputs the specifications draw.
MaxN == 4
MaxEdits == 2
MaxHeight == 2
MaxRows == 3
MaxCols == 4
MaxLen == 3
MaxLineHeight == 3

VARIABLES board, input_line, row_1, num, called, ret, reversed_board

vars == <<board, input_line, row_1, num, called, ret, reversed_board>>

----------------------------------------------------------------------------
(* Python built-ins the module uses *)

DigitChars == <<"0", "1", "2", "3", "4", "5", "6", "7", "8", "9">>

IsDigit(c) == \E d \in 1..10 : DigitChars[d] = c

\* int(c) of a one-character string; defined when IsDigit(c)
int(c) == (CHOOSE d \in 1..10 : DigitChars[d] = c) - 1

\* str(d) of a one-digit number
str(d) == DigitChars[d + 1]

Bool(b) == IF b THEN "True" ELSE "False"

IsFault(o) == o \in {"ValueError", "IndexError"}

\* s[lo-1:hi] of Python in 1-based inclusive positions
Slice(s, lo, hi) == IF hi < lo THEN <<>> ELSE SubSeq(s, lo, hi)

\* filter(lambda x: x != "*", cells)
NotBlank(c) == c # "*"

filter_blank(cells) == SelectSeq(cells, NotBlank)

reverse(s) == [k \in 1..Len(s) |-> s[Len(s) + 1 - k]]

\* max(num) of a non-empty list
max(s) == CHOOSE m \in {s[k] : k \in 1..Len(s)} : \A k \in 1..Len(s) : s[k] <= m

max2(a, b) == IF a >= b THEN a ELSE b

RECURSIVE lstrip(_)
lstrip(s) == IF s # <<>> /\ Head(s) = "*" THEN lstrip(Tail(s)) ELSE s

RECURSIVE rstrip(_)
rstrip(s) ==
    IF s # <<>> /\ s[Len(s)] = "*" THEN rstrip(SubSeq(s, 1, Len(s) - 1)) ELSE s

\* input_line.strip("*")
strip(s) == rstrip(lstrip(s))

----------------------------------------------------------------------------
(* left_to_right_check *)

left_to_right_check(line, pivot) ==
    LET stripped == strip(line)
    IN  IF \E k \in 1..Len(stripped) : ~IsDigit(stripped[k]) THEN "ValueError"
        ELSE IF stripped = <<>> THEN "IndexError"
        ELSE LET nums == Tail([k \in 1..Len(stripped) |-> int(stripped[k])])
                 upto == IF pivot >= 0 THEN pivot ELSE Len(nums) + pivot
                 cut  == Slice(nums, 1, IF upto > Len(nums) THEN Len(nums) ELSE upto)
             IN  IF cut = <<>> THEN "IndexError"
                 ELSE Bool(cut[Len(cut)] = max(cut))

----------------------------------------------------------------------------
(* check_rows *)

\* the list temp after the loop over range(i - 1, len(row_1))
RECURSIVE check_rows_loop(_, _, _, _)
check_rows_loop(row, i, first_num, temp) ==
    IF i > Len(row) THEN temp
    ELSE check_rows_loop(row, i + 1, max2(row[i], first_num),
                         IF row[i] > first_num THEN Append(temp, row[i]) ELSE temp)

\* check_rows with the hint matched exactly
check_rows_exact(row, hint) ==
    IF row = <<>> THEN "IndexError"
    ELSE Bool(Len(check_rows_loop(row, 2, row[1], <<row[1]>>)) = hint)

check_rows(row, hint) ==
    IF row = <<>> THEN "IndexError"
    ELSE Bool(Len(check_rows_loop(row, 2, row[1], <<row[1]>>)) >= hint)

----------------------------------------------------------------------------
(* check_not_finished_board *)

RowHas(row, c) == \E k \in 1..Len(row) : row[k] = c

\* check_not_finished_board scanning the interior rows only
check_not_finished_interior(b) ==
    Bool(~ \E r \in 2..(Len(b) - 1) : RowHas(b[r], "?"))

RECURSIVE check_not_finished_board(_)
check_not_finished_board(b) ==
    IF b = <<>> THEN "True"
    ELSE IF RowHas(Head(b), "?") THEN "False"
    ELSE check_not_finished_board(Tail(b))

----------------------------------------------------------------------------
(* check_uniqueness_in_rows *)

RECURSIVE uniqueness_loop(_)
uniqueness_loop(rows) ==
    IF rows = <<>> THEN "True"
    ELSE LET row == Head(rows)
         IN  IF Len(row) < 2 THEN "IndexError"
             ELSE LET cells == filter_blank(Slice(row, 2, Len(row) - 1))
                  IN  IF Len(cells) # Cardinality({cells[k] : k \in 1..Len(cells)})
                      THEN "False"
                      ELSE uniqueness_loop(Tail(rows))

\* check_uniqueness_in_rows without the slice board[1:-1]
check_uniqueness_all_rows(b) == uniqueness_loop(b)

\* check_uniqueness_in_rows returning early when fewer than two rows remain
check_uniqueness_skip_few(b) ==
    IF Len(Slice(b, 2, Len(b) - 1)) < 2 THEN "True"
    ELSE uniqueness_loop(Slice(b, 2, Len(b) - 1))

check_uniqueness_in_rows(b) == uniqueness_loop(Slice(b, 2, Len(b) - 1))

----------------------------------------------------------------------------
(* check_horizontal_visibility *)

\* What one pass of the loop body appends to results; an exception ends it.
row_results(row) ==
    LET cells == filter_blank(Slice(row, 2, Len(row) - 1))
    IN  IF \E k \in 1..Len(cells) : ~IsDigit(cells[k]) THEN <<"ValueError">>
        ELSE IF row = <<>> THEN <<"IndexError">>
        ELSE LET heights == [k \in 1..Len(cells) |-> int(cells[k])]
                 left  == IF row[1] = "*" THEN <<>>
                          ELSE IF ~IsDigit(row[1]) THEN <<"ValueError">>
                          ELSE <<check_rows(heights, int(row[1]))>>
                 right == IF row[Len(row)] = "*" THEN <<>>
                          ELSE IF ~IsDigit(row[Len(row)]) THEN <<"ValueError">>
                          ELSE <<check_rows(reverse(heights), int(row[Len(row)]))>>
             IN  IF left # <<>> /\ IsFault(left[1]) THEN left ELSE left \o right

RECURSIVE visibility_loop(_, _)
visibility_loop(rows, results) ==
    IF rows = <<>>
    THEN Bool(~ \E k \in 1..Len(results) : results[k] = "False")
    ELSE LET got == row_results(Head(rows))
         IN  IF got # <<>> /\ IsFault(got[Len(got)]) THEN got[Len(got)]
             ELSE visibility_loop(Tail(rows), results \o got)

check_horizontal_visibility(b) == visibility_loop(Slice(b, 2, Len(b) - 1), <<>>)

----------------------------------------------------------------------------
(* check_columns *)

\* board[j][i] is read for every i, j in range(len(board))
transpose_faults(b) == \E i \in 1..Len(b), j \in 1..Len(b) : i > Len(b[j])

\* transpose reading board[j][n - 1 - i]: a quarter turn
transpose_turned(b) == [i \in 1..Len(b) |-> [j \in 1..Len(b) |-> b[j][Len(b) + 1 - i]]]

\* reversed_board after the two loops, when no read of them faults
transpose(b) == [i \in 1..Len(b) |-> [j \in 1..Len(b) |-> b[j][i]]]

\* check_columns applying the row checks to the board as given
check_columns_untransposed(b) ==
    IF transpose_faults(b) THEN "IndexError"
    ELSE LET uniqueness == check_uniqueness_in_rows(b)
         IN  IF IsFault(uniqueness) THEN uniqueness
             ELSE LET visibility == check_horizontal_visibility(b)
                  IN  IF IsFault(visibility) THEN visibility
                      ELSE Bool(uniqueness = "True" /\ visibility = "True")

check_columns(b) ==
    IF transpose_faults(b) THEN "IndexError"
    ELSE LET uniqueness == check_uniqueness_in_rows(transpose(b))
         IN  IF IsFault(uniqueness) THEN uniqueness
             ELSE LET visibility == check_horizontal_visibility(transpose(b))
                  IN  IF IsFault(visibility) THEN visibility
                      ELSE Bool(uniqueness = "True" /\ visibility = "True")

----------------------------------------------------------------------------
(* check_skyscrapers, from the board read_input returns *)

\* check_skyscrapers returning columns and not_finished and uniqueness
check_skyscrapers_no_visibility(b) ==
    LET columns == check_columns(b)
    IN  IF IsFault(columns) THEN columns
        ELSE LET h_visibility == check_horizontal_visibility(b)
             IN  IF IsFault(h_visibility) THEN h_visibility
                 ELSE LET not_finished == check_not_finished_board(b)
                          uniqueness == check_uniqueness_in_rows(b)
                      IN  IF IsFault(uniqueness) THEN uniqueness
                          ELSE Bool(columns = "True" /\ not_finished = "True"
                                    /\ uniqueness = "True")

check_skyscrapers(b) ==
    LET columns == check_columns(b)
    IN  IF IsFault(columns) THEN columns
        ELSE LET h_visibility == check_horizontal_visibility(b)
             IN  IF IsFault(h_visibility) THEN h_visibility
                 ELSE LET not_finished == check_not_finished_board(b)
                          uniqueness == check_uniqueness_in_rows(b)
                      IN  IF IsFault(uniqueness) THEN uniqueness
                          ELSE Bool(columns = "True" /\ h_visibility = "True"
                                    /\ not_finished = "True" /\ uniqueness = "True")

----------------------------------------------------------------------------
(* The inputs *)

Chars == {"*", "?"} \cup {str(d) : d \in 1..MaxHeight}

\* The board of nr rows and nc columns with no hint and every cell filled.
base_board(nr, nc) ==
    [i \in 1..nr |-> [j \in 1..nc |->
        IF i \in {1, nr} \/ j \in {1, nc} THEN "*"
        ELSE str(((i + j) % MaxHeight) + 1)]]

Cells(nr, nc) == (1..nr) \X (1..nc)

\* MaxEdits cells with the character to write in each, the cells in reading
\* order; a cell named twice is written once.  A board with no cell has none.
Edits(nr, nc) ==
    IF Cells(nr, nc) = {} THEN {<<>>}
    ELSE {e \in [1..MaxEdits -> Cells(nr, nc) \X Chars] :
            \A k \in 1..(MaxEdits - 1) :
                LET a == e[k][1]
                    b == e[k + 1][1]
                IN  \/ a[1] < b[1]
                    \/ a[1] = b[1] /\ a[2] < b[2]
                    \/ e[k] = e[k + 1]}

RECURSIVE edited(_, _, _)
edited(b, e, k) ==
    IF k = 0 THEN b
    ELSE LET cell == e[k][1]
             prev == edited(b, e, k - 1)
         IN  [prev EXCEPT ![cell[1]][cell[2]] = e[k][2]]

HintChars == {"*"} \cup {str(d) : d \in 1..MaxLineHeight}

Heights == UNION {[1..n -> 1..MaxLineHeight] : n \in 0..MaxLen}

\* The row of a board that holds the heights hs between two edge cells.
line_of(left, hs, right) == <<left>> \o [k \in 1..Len(hs) |-> str(hs[k])] \o <<right>>

----------------------------------------------------------------------------
(* The state: the arguments of a call, the function called, its outcome *)

InitCall ==
    /\ called = "none"
    /\ ret = "none"
    /\ reversed_board = <<>>

\* a square board, as check_skyscrapers expects it
InitBoard ==
    /\ \E n \in 0..MaxN : \E e \in Edits(n, n) :
            board = edited(base_board(n, n), e, Len(e))
    /\ input_line = <<>>
    /\ row_1 = <<>>
    /\ num = 0
    /\ InitCall

\* a list of rows of one length, as check_uniqueness_in_rows accepts it
InitRect ==
    /\ \E nr \in 0..MaxRows, nc \in 2..MaxCols : \E e \in Edits(nr, nc) :
            board = edited(base_board(nr, nc), e, Len(e))
    /\ input_line = <<>>
    /\ row_1 = <<>>
    /\ num = 0
    /\ InitCall

\* a list of heights with a hint, and the board row that holds them
InitLine ==
    /\ board = <<>>
    /\ row_1 \in Heights
    /\ num \in 0..(MaxLen + 1)
    /\ \E left \in HintChars, right \in HintChars :
            input_line = line_of(left, row_1, right)
    /\ InitCall

Call_left_to_right_check ==
    /\ called = "none"
    /\ called' = "left_to_right_check"
    /\ ret' = left_to_right_check(input_line, num)
    /\ UNCHANGED <<board, input_line, row_1, num, reversed_board>>

Call_check_rows ==
    /\ called = "none"
    /\ called' = "check_rows"
    /\ ret' = check_rows(row_1, num)
    /\ UNCHANGED <<board, input_line, row_1, num, reversed_board>>

Call_check_not_finished_board ==
    /\ called = "none"
    /\ called' = "check_not_finished_board"
    /\ ret' = check_not_finished_board(board)
    /\ UNCHANGED <<board, input_line, row_1, num, reversed_board>>

Call_check_uniqueness_in_rows ==
    /\ called = "none"
    /\ called' = "check_uniqueness_in_rows"
    /\ ret' = check_uniqueness_in_rows(board)
    /\ UNCHANGED <<board, input_line, row_1, num, reversed_board>>

Call_check_horizontal_visibility ==
    /\ called = "none"
    /\ called' = "check_horizontal_visibility"
    /\ ret' = check_horizontal_visibility(board)
    /\ UNCHANGED <<board, input_line, row_1, num, reversed_board>>

Call_check_columns ==
    /\ called = "none"
    /\ called' = "check_columns"
    /\ reversed_board' = IF transpose_faults(board) THEN <<>> ELSE transpose(board)
    /\ ret' = check_columns(board)
    /\ UNCHANGED <<board, input_line, row_1, num>>

Call_check_skyscrapers ==
    /\ called = "none"
    /\ called' = "check_skyscrapers"
    /\ ret' = check_skyscrapers(board)
    /\ UNCHANGED <<board, input_line, row_1, num, reversed_board>>

NextBoard ==
    \/ Call_check_not_finished_board
    \/ Call_check_uniqueness_in_rows
    \/ Call_check_horizontal_visibility
    \/ Call_check_columns
    \/ Call_check_skyscrapers

NextRect == Call_check_uniqueness_in_rows

NextLine ==
    \/ Call_left_to_right_check
    \/ Call_check_rows

\* the checks of a square board
Spec == InitBoard /\ [][NextBoard]_vars

\* check_uniqueness_in_rows of a list of rows that need not be square
SpecRect == InitRect /\ [][NextRect]_vars

\* the checks of one row
SpecLine == InitLine /\ [][NextLine]_vars

----------------------------------------------------------------------------
(* Properties *)

Booleans == {"True", "False"}

IsSquare(b) == \A r \in 1..Len(b) : Len(b[r]) = Len(b)

InteriorRows(b) == 2..(Len(b) - 1)

InteriorCols(row) == 2..(Len(row) - 1)

\* the heights a row holds between its two edge cells
HeightsOf(row) ==
    LET cells == filter_blank(Slice(row, 2, Len(row) - 1))
    IN  [k \in 1..Len(cells) |-> int(cells[k])]

HasInteriorUnfilled(b) ==
    \E r \in InteriorRows(b) : \E p \in InteriorCols(b[r]) : b[r][p] = "?"

HasUnfilled(b) == \E r \in 1..Len(b) : \E p \in 1..Len(b[r]) : b[r][p] = "?"

\* every interior cell is a digit and no cell is the unfilled marker
Complete(b) ==
    /\ IsSquare(b)
    /\ ~HasUnfilled(b)
    /\ \A r \in InteriorRows(b) : \A p \in InteriorCols(b[r]) : IsDigit(b[r][p])

\* the number of buildings taller than every building before them
VisibleCount(hs) ==
    Cardinality({k \in 1..Len(hs) : \A m \in 1..(k - 1) : hs[m] < hs[k]})

Distinct(hs) == \A k, m \in 1..Len(hs) : k # m => hs[k] # hs[m]

\* two cells between the edges of the row are equal and not blank
RowRepeats(row) ==
    \E p, q \in InteriorCols(row) : p < q /\ row[p] = row[q] /\ row[p] # "*"

\* the cells between the edges of the row, blanks dropped, are digits
RowConvertible(row) ==
    \A p \in InteriorCols(row) : row[p] # "*" => IsDigit(row[p])

\* every hint of the row is satisfied by its heights: by the heights read
\* left to right for the left hint, by the heights reversed for the right
HintsSatisfied(row) ==
    /\ row[1] # "*" =>
            /\ RowConvertible(row)
            /\ check_rows(HeightsOf(row), int(row[1])) = "True"
    /\ row[Len(row)] # "*" =>
            /\ RowConvertible(row)
            /\ check_rows(reverse(HeightsOf(row)), int(row[Len(row)])) = "True"

\* the input contract: a square board whose interior cells are heights or
\* '?' and whose hints are digits or '*'
InContract(b) ==
    /\ IsSquare(b)
    /\ \A r \in InteriorRows(b) :
          /\ \A p \in InteriorCols(b[r]) : IsDigit(b[r][p]) \/ b[r][p] = "?"
          /\ IsDigit(b[r][1]) \/ b[r][1] = "*"
          /\ IsDigit(b[r][Len(b[r])]) \/ b[r][Len(b[r])] = "*"

TransposeOf(b) == [i \in 1..Len(b) |-> [j \in 1..Len(b) |-> b[j][i]]]

\* uniqueness and visibility, the first exception raised ending the call
AndOutcome(u, v) ==
    IF IsFault(u) THEN u
    ELSE IF IsFault(v) THEN v
    ELSE Bool(u = "True" /\ v = "True")

\* C1: on a square board with '?' in an interior cell,
\* check_not_finished_board returns False and check_skyscrapers finishes
\* and returns False.
C1_UnfilledYieldsFalse ==
    (IsSquare(board) /\ HasInteriorUnfilled(board)) =>
        /\ called = "check_not_finished_board" => ret = "False"
        /\ called = "check_skyscrapers" => ret = "False"

\* C2: on a complete square board none of the four checks raises, so their
\* order is immaterial, and check_skyscrapers returns True exactly when
\* check_not_finished_board, check_uniqueness_in_rows,
\* check_horizontal_visibility and check_columns all return True.
C2_AndOfFourChecks ==
    (called = "check_skyscrapers" /\ Complete(board)) =>
        /\ ret \in Booleans
        /\ check_not_finished_board(board) \in Booleans
        /\ check_uniqueness_in_rows(board) \in Booleans
        /\ check_horizontal_visibility(board) \in Booleans
        /\ check_columns(board) \in Booleans
        /\ ret = "True" <=>
              /\ check_not_finished_board(board) = "True"
              /\ check_uniqueness_in_rows(board) = "True"
              /\ check_horizontal_visibility(board) = "True"
              /\ check_columns(board) = "True"

C2_Witness ==
    /\ called = "check_skyscrapers"
    /\ Complete(board)
    /\ Len(board) >= 4
    /\ \E r \in InteriorRows(board) : IsDigit(board[r][1])
    /\ ret = "True"

\* C3: check_rows(seq, num) of a non-empty seq and num >= 1 returns True
\* exactly when num is at most the number of visible buildings of seq, and
\* False otherwise.
C3_CheckRowsLenient ==
    (called = "check_rows" /\ row_1 # <<>> /\ num >= 1) =>
        ret = Bool(num <= VisibleCount(row_1))

C3_Witness ==
    /\ called = "check_rows"
    /\ num >= 1
    /\ num < VisibleCount(row_1)
    /\ ret = "True"

\* C4: on a board of the input contract check_horizontal_visibility
\* returns True exactly when in every interior row the left hint, if
\* present, is satisfied by the heights read left to right and the right
\* hint, if present, by the heights reversed; a row with '*' on both edges
\* never keeps the result from being True, and the first and last row play
\* no part.
C4_HorizontalVisibility ==
    (called = "check_horizontal_visibility" /\ InContract(board)) =>
        /\ ret \in Booleans
        /\ ret = "True" <=> \A r \in InteriorRows(board) : HintsSatisfied(board[r])

\* C5: check_uniqueness_in_rows returns False exactly when some interior
\* row repeats a character other than '*' between its edges; the first and
\* last row and the edge cells play no part.
C5_RowUniqueness ==
    (called = "check_uniqueness_in_rows" /\ IsSquare(board)) =>
        /\ ret \in Booleans
        /\ ret = "False" <=> \E r \in InteriorRows(board) : RowRepeats(board[r])

C5_Witness ==
    /\ called = "check_uniqueness_in_rows"
    /\ ret = "True"
    /\ \E r \in InteriorRows(board) :
          /\ IsDigit(board[r][1])
          /\ board[r][1] = board[r][Len(board[r])]
          /\ \E p \in InteriorCols(board[r]) : board[r][p] = board[r][1]

\* C6: check_not_finished_board returns True exactly when no cell of the
\* board, border cells included, is '?'.
C6_NotFinished ==
    called = "check_not_finished_board" =>
        /\ ret \in Booleans
        /\ ret = "True" <=> ~HasUnfilled(board)

C6_Witness ==
    /\ called = "check_not_finished_board"
    /\ ret = "False"
    /\ ~HasInteriorUnfilled(board)
    /\ Len(board) >= 3

\* C7: on a square board check_columns ends as check_uniqueness_in_rows and
\* check_horizontal_visibility of the transposed board, combined by and.
C7_ColumnsAreRowsOfTranspose ==
    (called = "check_columns" /\ IsSquare(board)) =>
        ret = AndOutcome(check_uniqueness_in_rows(TransposeOf(board)),
                         check_horizontal_visibility(TransposeOf(board)))

C7_Witness ==
    /\ called = "check_columns"
    /\ ret = "False"
    /\ check_uniqueness_in_rows(board) = "True"
    /\ check_horizontal_visibility(board) = "True"
    /\ \E p \in InteriorCols(board[1]) : IsDigit(board[1][p])

\* C8: the transposition of check_columns applied twice to a square board
\* gives the board back, what check_columns built transposes back to the
\* board, and no call changes the board.
C8_TransposeInvolution ==
    /\ [](IsSquare(board) =>
            /\ ~transpose_faults(board)
            /\ transpose(transpose(board)) = board
            /\ called = "check_columns" => transpose(reversed_board) = board)
    /\ [][board' = board]_vars

C8_Witness ==
    /\ called = "check_columns"
    /\ Len(board) >= 3
    /\ reversed_board # board

\* C9: for a row with a left hint and distinct heights and a pivot >= 1,
\* left_to_right_check returns what check_rows returns for the heights of
\* the row and the pivot.
C9_LeftToRightIsVisibility ==
    (/\ called = "left_to_right_check"
     /\ IsDigit(input_line[1])
     /\ HeightsOf(input_line) # <<>>
     /\ Distinct(HeightsOf(input_line))
     /\ num >= 1) =>
        ret = check_rows(HeightsOf(input_line), num)

\* C10, as stated: check_uniqueness_in_rows returns True whenever fewer
\* than two rows remain after the first and last row are dropped.
C10_FewRowsVacuouslyTrue ==
    (called = "check_uniqueness_in_rows" /\ Len(Slice(board, 2, Len(board) - 1)) < 2) =>
        ret = "True"

\* C10, amended: with no row remaining check_uniqueness_in_rows returns
\* True; with one row remaining (of two characters or more) it returns
\* False exactly when that row repeats a character other than '*' between
\* its edges.
C10_FewRowsChecked ==
    (called = "check_uniqueness_in_rows" /\ Len(Slice(board, 2, Len(board) - 1)) < 2) =>
        /\ ret \in Booleans
        /\ Len(board) <= 2 => ret = "True"
        /\ Len(board) = 3 => (ret = "False" <=> RowRepeats(board[2]))

C10_Witness ==
    /\ called = "check_uniqueness_in_rows"
    /\ Len(board) = 3
    /\ RowRepeats(board[2])
    /\ ret = "False"

====
